---- MODULE Spec2Model ----
(***************************************************************************)
(* The workspace controller of the operator and the cluster objects it     *)
(* reads and writes.                                                       *)
(*                                                                         *)
(* The controller is built with controller.Options{Reconciler: r}, so it   *)
(* runs one worker: passes of Reconcile never overlap, but every other     *)
(* actor of the cluster (clients creating and deleting workspaces,         *)
(* commands and secrets, another creator of the volume claim) takes steps  *)
(* between any two API calls of a pass.  Each API call of Reconcile is one *)
(* action; an API call may fail with a transient error.                    *)
(*                                                                         *)
(* The client command `workspace new` is the second half of the module:    *)
(* it has its own variables and its own specification, SpecClient, and the *)
(* controller's specifications leave its variables alone.                  *)
(***************************************************************************)
EXTENDS Integers, Sequences, FiniteSets, TLC

\* Number of command names the clients use (plan-1 .. plan-MaxCmds).
MaxCmds == 2

\* The workspace objects the clients create, and the workspaces a command can
\* be linked to: a command may name a workspace that is not (or not yet) there.
WsNames == {"workspace-1"}

Labels == {"workspace-1", "workspace-2"}

SecretNames == {"", "stok"}

Namespaces == {"default"}

\* A command named plan-i is written i.
CmdNames == 1..MaxCmds

\* metadata.creationTimestamp has a resolution of one second: two commands are
\* created in the same second or in different ones.
Timestamps == {0, 1}

KindPVC == "PersistentVolumeClaim"

KindConfigMap == "ConfigMap"

KindPod == "Pod"

KindStatus == "Workspace/status"

ConditionHealthy == "Healthy"

VARIABLES
    workspaces,   \* the Workspace objects of the cluster
    commands,     \* the Command objects of the cluster
    objects,      \* volume claims, config maps and pods of the cluster
    secrets,      \* names of the Secret objects of the cluster
    pc,           \* where the worker is inside Reconcile
    request,      \* reconcile.Request of the pass
    instance,     \* the Workspace the pass fetched
    err,          \* the error of the pass's last API call
    result,       \* what the last pass returned
    calls,        \* the write calls the pass issued, in order
    parked,       \* the locals of the pass of the controller's other worker
    opt,          \* newOptions: the flags and the created* fields
    api,          \* the kinds of which the client's object exists in the namespace
    cpc,          \* where the main goroutine of `workspace new` is
    waiter,       \* the goroutines of the errgroup
    g,            \* the errgroup and its context gctx
    interrupted,  \* cmd.Context() is cancelled (the user interrupted)
    podch,        \* the single-slot channel of the ready pod
    pod,          \* the pod run received from podch
    exit,         \* the exit monitor and its channel
    trace,        \* what the main goroutine did, in order
    runErr,       \* what run returned
    reported      \* what RunE returned to the user

cluster == <<workspaces, commands, objects, secrets>>

locals == <<pc, request, instance, err, result, calls>>

client == <<opt, api, cpc, waiter, g, interrupted, podch, pod, exit, trace,
            runErr, reported>>

vars == <<workspaces, commands, objects, secrets,
          pc, request, instance, err, result, calls, parked, client>>

----------------------------------------------------------------------------
(* Helpers *)

Range(s) == {s[i] : i \in 1..Len(s)}

\* All orders in which a list call can return the members of S.
Perms(S) == {s \in [1..Cardinality(S) -> S] : Range(s) = S}

Names(items) == [i \in 1..Len(items) |-> items[i].name]

\* Position of n in the sequence q (0 when absent).
IndexOf(q, n) == IF \E i \in 1..Len(q) : q[i] = n
                 THEN CHOOSE i \in 1..Len(q) : q[i] = n
                 ELSE 0

Before(q, a, b) == IndexOf(q, a) # 0 /\ IndexOf(q, b) # 0 /\ IndexOf(q, a) < IndexOf(q, b)

----------------------------------------------------------------------------
(* Objects *)

\* A nil pointer, as distinct from a pointer to the empty string.
Null == "<nil>"

\* WorkspaceStatus: the queue; no pass stores anything else in the status.
EmptyStatus == [queue |-> <<>>, conditions |-> {}]

\* instance := &Workspace{} before the Get.  The fetched status is overwritten
\* before any of it is read, so the local keeps the metadata and the spec.
ZeroWorkspace ==
    [name |-> "", namespace |-> "", secretName |-> "", size |-> "", storageClass |-> Null]

Fetched(x) ==
    [name |-> x.name, namespace |-> x.namespace, secretName |-> x.secretName,
     size |-> x.size, storageClass |-> x.storageClass]

ZeroRequest == [Name |-> "", Namespace |-> ""]

\* reconcile.Result{} together with the returned error.
Returned(e) == [Requeue |-> FALSE, err |-> e]

NoResult == [Requeue |-> FALSE, err |-> "none"]

\* The locals of a worker that is between passes.
IdleWorker ==
    [pc |-> "idle", request |-> ZeroRequest, instance |-> ZeroWorkspace,
     err |-> "nil", result |-> NoResult, calls |-> <<>>]

GetWorkspace(name, ns) == {w \in workspaces : w.name = name /\ w.namespace = ns}

GetObject(kind, name, ns) ==
    {o \in objects : o.kind = kind /\ o.name = name /\ o.namespace = ns}

\* The status of the condition of the given type, "Absent" when there is none.
GetCondition(status, type) ==
    IF \E c \in status.conditions : c.type = type
    THEN (CHOOSE c \in status.conditions : c.type = type).status
    ELSE "Absent"

\* The stored queue of the workspace named w (empty when it does not exist).
StoredQueue(w) ==
    IF \E x \in workspaces : x.name = w
    THEN (CHOOSE x \in workspaces : x.name = w).status.queue
    ELSE <<>>

newPVCForCR(cr) ==
    [kind |-> KindPVC,
     name |-> cr.name \o "-pvc",
     namespace |-> cr.namespace,
     owner |-> cr.name,
     storage |-> "1Gi",
     storageClassName |-> Null]

----------------------------------------------------------------------------
(* The other actors of the cluster *)

CreateWorkspace(w, ns, secretName) ==
    /\ GetWorkspace(w, ns) = {}
    /\ workspaces' = workspaces \cup
          {[name |-> w, namespace |-> ns, secretName |-> secretName,
            size |-> "", storageClass |-> Null, status |-> EmptyStatus]}
    /\ UNCHANGED <<commands, objects, secrets, locals, parked, client>>

DeleteWorkspace(w, ns) ==
    /\ GetWorkspace(w, ns) # {}
    /\ workspaces' = workspaces \ GetWorkspace(w, ns)
    /\ UNCHANGED <<commands, objects, secrets, locals, parked, client>>

CreateCommand(n, ns, w, t) ==
    /\ ~ \E c \in commands : c.name = n /\ c.namespace = ns
    /\ commands' = commands \cup
          {[name |-> n, namespace |-> ns, workspace |-> w,
            completed |-> FALSE, created |-> t]}
    /\ UNCHANGED <<workspaces, objects, secrets, locals, parked, client>>

CompleteCommand(c) ==
    /\ c \in commands
    /\ ~ c.completed
    /\ commands' = (commands \ {c}) \cup {[c EXCEPT !.completed = TRUE]}
    /\ UNCHANGED <<workspaces, objects, secrets, locals, parked, client>>

DeleteCommand(c) ==
    /\ c \in commands
    /\ commands' = commands \ {c}
    /\ UNCHANGED <<workspaces, objects, secrets, locals, parked, client>>

CreateSecret(s) ==
    /\ s \notin secrets
    /\ secrets' = secrets \cup {s}
    /\ UNCHANGED <<workspaces, commands, objects, locals, parked, client>>

DeleteSecret(s) ==
    /\ s \in secrets
    /\ secrets' = secrets \ {s}
    /\ UNCHANGED <<workspaces, commands, objects, locals, parked, client>>

\* Another creator of the claim (a second replica of the operator, a user).
OtherCreatePVC(w, ns) ==
    LET pvc == newPVCForCR([name |-> w, namespace |-> ns])
    IN /\ GetObject(pvc.kind, pvc.name, pvc.namespace) = {}
       /\ objects' = objects \cup {pvc}
       /\ UNCHANGED <<workspaces, commands, secrets, locals, parked, client>>

\* A user, or the garbage collector after the owner is gone, deletes the claim.
DeletePVC(o) ==
    /\ o \in objects
    /\ objects' = objects \ {o}
    /\ UNCHANGED <<workspaces, commands, secrets, locals, parked, client>>

----------------------------------------------------------------------------
(* Reconcile.  Each action is one API call of the pass, but the list of the  *)
(* commands and the status write that follows it are one action.  A pass is *)
(* requested for a workspace name whenever a workspace, a claim it owns or  *)
(* a command naming it changes, so also for names no workspace has.         *)
(* SetControllerReference fails only on a scheme without the Workspace      *)
(* kind, which the manager never has.                                       *)

\* A write call of the pass and whether the API server carried it out.
Call(verb, kind, name, ok) == [verb |-> verb, kind |-> kind, name |-> name, ok |-> ok]

\* The pass returns e; request and instance die with it.
Return(e) ==
    /\ pc' = "idle"
    /\ result' = Returned(e)
    /\ request' = ZeroRequest
    /\ instance' = ZeroWorkspace

\* Faulty variant of ReconcileGetWorkspace (sensitivity of C8): a workspace that
\* is not found is reported as an error.
ReconcileGetWorkspaceNotFoundFails(w, ns, fail) ==
    /\ pc = "idle"
    /\ UNCHANGED <<parked, client>>
    /\ calls' = <<>>
    /\ UNCHANGED cluster
    /\ IF fail
       THEN /\ err' = "transient"
            /\ Return("transient")
       ELSE IF GetWorkspace(w, ns) = {}
       THEN /\ err' = "NotFound"
            /\ Return("NotFound")
       ELSE /\ err' = "nil"
            /\ request' = [Name |-> w, Namespace |-> ns]
            /\ instance' = Fetched(CHOOSE x \in GetWorkspace(w, ns) : TRUE)
            /\ pc' = "getPVC"
            /\ UNCHANGED result

\* r.client.Get of the workspace.
ReconcileGetWorkspace(w, ns, fail) ==
    /\ pc = "idle"
    /\ UNCHANGED <<parked, client>>
    /\ calls' = <<>>
    /\ UNCHANGED cluster
    /\ IF fail
       THEN /\ err' = "transient"
            /\ Return("transient")
       ELSE IF GetWorkspace(w, ns) = {}
       THEN /\ err' = "NotFound"
            /\ Return("nil")
       ELSE /\ err' = "nil"
            /\ request' = [Name |-> w, Namespace |-> ns]
            /\ instance' = Fetched(CHOOSE x \in GetWorkspace(w, ns) : TRUE)
            /\ pc' = "getPVC"
            /\ UNCHANGED result

\* Faulty variant of ReconcileGetPVC (sensitivity of C10): a claim that is found
\* is brought up to date.
ReconcileGetPVCUpdatesFound(fail) ==
    LET pvc == newPVCForCR(instance)
    IN /\ pc = "getPVC"
       /\ UNCHANGED <<parked, client>>
       /\ UNCHANGED <<workspaces, commands, secrets>>
       /\ IF fail
          THEN /\ err' = "transient"
               /\ Return("transient")
               /\ UNCHANGED <<objects, calls>>
          ELSE IF GetObject(pvc.kind, pvc.name, pvc.namespace) = {}
          THEN /\ err' = "NotFound"
               /\ pc' = "createPVC"
               /\ UNCHANGED <<objects, calls, request, instance, result>>
          ELSE /\ err' = "nil"
               /\ pc' = "list"
               /\ objects' = (objects \ GetObject(pvc.kind, pvc.name, pvc.namespace))
                                 \cup {pvc}
               /\ calls' = Append(calls, Call("update", pvc.kind, pvc.name, TRUE))
               /\ UNCHANGED <<request, instance, result>>

\* r.client.Get of the claim.
ReconcileGetPVC(fail) ==
    LET pvc == newPVCForCR(instance)
    IN /\ pc = "getPVC"
       /\ UNCHANGED <<parked, client>>
       /\ UNCHANGED <<cluster, calls>>
       /\ IF fail
          THEN /\ err' = "transient"
               /\ Return("transient")
          ELSE IF GetObject(pvc.kind, pvc.name, pvc.namespace) = {}
          THEN /\ err' = "NotFound"
               /\ pc' = "createPVC"
               /\ UNCHANGED <<request, instance, result>>
          ELSE /\ err' = "nil"
               /\ pc' = "list"
               /\ UNCHANGED <<request, instance, result>>

\* Faulty variant of ReconcileCreatePVC (sensitivity of C12): a create that
\* fails is not reported.
ReconcileCreatePVCHidesError(fail) ==
    LET pvc == newPVCForCR(instance)
    IN /\ pc = "createPVC"
       /\ UNCHANGED <<parked, client>>
       /\ UNCHANGED <<workspaces, commands, secrets>>
       /\ IF fail
          THEN /\ err' = "transient"
               /\ calls' = Append(calls, Call("create", pvc.kind, pvc.name, FALSE))
               /\ Return("nil")
               /\ UNCHANGED objects
          ELSE IF GetObject(pvc.kind, pvc.name, pvc.namespace) # {}
          THEN /\ err' = "AlreadyExists"
               /\ calls' = Append(calls, Call("create", pvc.kind, pvc.name, FALSE))
               /\ Return("AlreadyExists")
               /\ UNCHANGED objects
          ELSE /\ err' = "nil"
               /\ calls' = Append(calls, Call("create", pvc.kind, pvc.name, TRUE))
               /\ objects' = objects \cup {pvc}
               /\ Return("nil")

\* r.client.Create of the claim; the pass ends here, whatever the outcome.
ReconcileCreatePVC(fail) ==
    LET pvc == newPVCForCR(instance)
    IN /\ pc = "createPVC"
       /\ UNCHANGED <<parked, client>>
       /\ UNCHANGED <<workspaces, commands, secrets>>
       /\ IF fail
          THEN /\ err' = "transient"
               /\ calls' = Append(calls, Call("create", pvc.kind, pvc.name, FALSE))
               /\ Return("transient")
               /\ UNCHANGED objects
          ELSE IF GetObject(pvc.kind, pvc.name, pvc.namespace) # {}
          THEN /\ err' = "AlreadyExists"
               /\ calls' = Append(calls, Call("create", pvc.kind, pvc.name, FALSE))
               /\ Return("AlreadyExists")
               /\ UNCHANGED objects
          ELSE /\ err' = "nil"
               /\ calls' = Append(calls, Call("create", pvc.kind, pvc.name, TRUE))
               /\ objects' = objects \cup {pvc}
               /\ Return("nil")

\* The names of the listed items, in the order of the list.
QueueOf(items) == Names(items)

\* Faulty variant of ReconcileQueue (sensitivity of C14): the pass removes the
\* completed commands it listed.
ReconcileQueuePrunesCompleted(failList, failUpdate) ==
    /\ pc = "list"
    /\ UNCHANGED <<parked, client>>
    /\ UNCHANGED <<objects, secrets>>
    /\ IF failList
       THEN /\ err' = "transient"
            /\ Return("transient")
            /\ UNCHANGED <<workspaces, commands, calls>>
       ELSE \E items \in Perms({c \in commands : c.namespace = request.Namespace}) :
            /\ err' = "nil"
            /\ Return("nil")
            /\ commands' = {c \in commands : ~ c.completed}
            /\ IF Len(items) > 0
               THEN LET stored == GetWorkspace(instance.name, instance.namespace)
                    IN /\ calls' = Append(calls, Call("update", KindStatus, instance.name,
                                                      ~ (failUpdate \/ stored = {})))
                       /\ IF failUpdate \/ stored = {}
                          THEN UNCHANGED workspaces
                          ELSE workspaces' = (workspaces \ stored) \cup
                                  {[(CHOOSE x \in stored : TRUE)
                                      EXCEPT !.status.queue = QueueOf(items)]}
               ELSE UNCHANGED <<workspaces, calls>>

\* Faulty variant of ReconcileQueue (sensitivity of C36): the names are
\* appended to the queue as stored instead of to an empty one.
ReconcileQueueAppends(failList, failUpdate) ==
    /\ pc = "list"
    /\ UNCHANGED <<parked, client>>
    /\ UNCHANGED <<commands, objects, secrets>>
    /\ IF failList
       THEN /\ err' = "transient"
            /\ Return("transient")
            /\ UNCHANGED <<workspaces, calls>>
       ELSE \E items \in Perms({c \in commands : c.namespace = request.Namespace}) :
            /\ err' = "nil"
            /\ Return("nil")
            /\ IF Len(items) > 0
               THEN LET stored == GetWorkspace(instance.name, instance.namespace)
                    IN /\ calls' = Append(calls, Call("update", KindStatus, instance.name,
                                                      ~ (failUpdate \/ stored = {})))
                       /\ IF failUpdate \/ stored = {}
                          THEN UNCHANGED workspaces
                          ELSE workspaces' = (workspaces \ stored) \cup
                                  {[(CHOOSE x \in stored : TRUE)
                                      EXCEPT !.status.queue = @ \o QueueOf(items)]}
               ELSE UNCHANGED <<workspaces, calls>>

\* Faulty variant of ReconcileQueue (sensitivity of C29): the queue is written
\* to every workspace of the namespace.
ReconcileQueueWritesAll(failList, failUpdate) ==
    /\ pc = "list"
    /\ UNCHANGED <<parked, client>>
    /\ UNCHANGED <<commands, objects, secrets>>
    /\ IF failList
       THEN /\ err' = "transient"
            /\ Return("transient")
            /\ UNCHANGED <<workspaces, calls>>
       ELSE \E items \in Perms({c \in commands : c.namespace = request.Namespace}) :
            /\ err' = "nil"
            /\ Return("nil")
            /\ IF Len(items) > 0
               THEN LET stored == GetWorkspace(instance.name, instance.namespace)
                    IN /\ calls' = Append(calls, Call("update", KindStatus, instance.name,
                                                      ~ (failUpdate \/ stored = {})))
                       /\ IF failUpdate \/ stored = {}
                          THEN UNCHANGED workspaces
                          ELSE workspaces' =
                                  {IF x.namespace = instance.namespace
                                   THEN [x EXCEPT !.status.queue = QueueOf(items)]
                                   ELSE x : x \in workspaces}
               ELSE UNCHANGED <<workspaces, calls>>

\* r.client.List of the commands of the request's namespace, which returns
\* them in some order; then, when there are any, the queue is rebuilt from the
\* list and the status written.  The error of the write is dropped.  (A write
\* to a workspace deleted and created again since the Get is refused by the
\* API server; failUpdate covers it.)
ReconcileQueue(failList, failUpdate) ==
    /\ pc = "list"
    /\ UNCHANGED <<parked, client>>
    /\ UNCHANGED <<commands, objects, secrets>>
    /\ IF failList
       THEN /\ err' = "transient"
            /\ Return("transient")
            /\ UNCHANGED <<workspaces, calls>>
       ELSE \E items \in Perms({c \in commands : c.namespace = request.Namespace}) :
            /\ err' = "nil"
            /\ Return("nil")
            /\ IF Len(items) > 0
               THEN LET stored == GetWorkspace(instance.name, instance.namespace)
                    IN /\ calls' = Append(calls, Call("update", KindStatus, instance.name,
                                                      ~ (failUpdate \/ stored = {})))
                       /\ IF failUpdate \/ stored = {}
                          THEN UNCHANGED workspaces
                          ELSE workspaces' = (workspaces \ stored) \cup
                                  {[(CHOOSE x \in stored : TRUE)
                                      EXCEPT !.status.queue = QueueOf(items)]}
               ELSE UNCHANGED <<workspaces, calls>>

----------------------------------------------------------------------------
(* `workspace new`: RunE, run, the three waiters of the errgroup, the exit  *)
(* monitor and cleanup.  The main goroutine takes one step per helper call  *)
(* of run; a waiter takes one step, from the return of UntilWithSync to the *)
(* end of its errgroup goroutine, which records the first error and cancels *)
(* gctx.  A timer that fires and the goroutine it wakes are one step.       *)

errPodTimeout == "timed out waiting for pod to be ready"

errReconcileTimeout == "timed out waiting for workspace to be reconciled"

errRestoreTimeout == "timed out waiting for workspace to provide status of restore"

errExitTimeout == "timed out waiting for exit code"

KindServiceAccount == "ServiceAccount"

KindSecret == "Secret"

KindWorkspace == "Workspace"

ClientKinds == {KindServiceAccount, KindSecret, KindWorkspace}

Waiters == {"waitForContainer", "waitForRestore", "waitForReconcile"}

\* Faulty variant of Sentinel (sensitivity of C17): every waiter reports the
\* timeout of the pod.
SentinelOfThePod(w) == errPodTimeout

\* The sentinel a waiter returns when UntilWithSync reports wait.ErrWaitTimeout.
Sentinel(w) ==
    CASE w = "waitForContainer" -> errPodTimeout
      [] w = "waitForRestore" -> errRestoreTimeout
      [] w = "waitForReconcile" -> errReconcileTimeout

\* The codes the exit monitor delivers: exit status 0 or an exit error.
ExitCodes == {"nil", "exit status 1"}

\* The flags of the command and the fields run sets.
Options ==
    [disableCreateServiceAccount : BOOLEAN,
     disableCreateSecret : BOOLEAN,
     disableResourceCleanup : BOOLEAN,
     BackupBucket : {"", "backups"},
     createdServiceAccount : {FALSE},
     createdSecret : {FALSE},
     createdWorkspace : {FALSE}]

NotStarted == [state |-> "unstarted", err |-> "nil", cause |-> "none", seq |-> 0]

Running == [state |-> "running", err |-> "nil", cause |-> "none", seq |-> 0]

\* The goroutine of the waiter returned e because of cause, as the n-th of the
\* group to return.
Finished(e, cause, n) == [state |-> "returned", err |-> e, cause |-> cause, seq |-> n]

\* errgroup.WithContext: no error yet, gctx not cancelled.
NewGroup == [err |-> "nil", by |-> "none", cancelled |-> FALSE]

\* An entry of the trace: an API call or a phase of run.
Event(verb, what, ok) == [verb |-> verb, what |-> what, ok |-> ok]

\* The state of the command when RunE calls run, for the given flags and the
\* objects the namespace already holds.
ClientStarts(options, existing) ==
    /\ opt = options
    /\ api = existing
    /\ cpc = "createServiceAccount"
    /\ waiter = [w \in Waiters |-> NotStarted]
    /\ g = NewGroup
    /\ interrupted = FALSE
    /\ podch = <<>>
    /\ pod = "none"
    /\ exit = [state |-> "unstarted", ch |-> <<>>, code |-> "none"]
    /\ trace = <<>>
    /\ runErr = "running"
    /\ reported = "running"

\* No `workspace new` is running.
ClientNotInvoked ==
    /\ opt = [disableCreateServiceAccount |-> FALSE, disableCreateSecret |-> FALSE,
            disableResourceCleanup |-> FALSE, BackupBucket |-> "",
            createdServiceAccount |-> FALSE, createdSecret |-> FALSE,
            createdWorkspace |-> FALSE]
    /\ api = {}
    /\ cpc = "exited"
    /\ waiter = [w \in Waiters |-> NotStarted]
    /\ g = NewGroup
    /\ interrupted = FALSE
    /\ podch = <<>>
    /\ pod = "none"
    /\ exit = [state |-> "unstarted", ch |-> <<>>, code |-> "none"]
    /\ trace = <<>>
    /\ runErr = "running"
    /\ reported = "running"

\* The context a waiter derives its own from is done.
GctxDone == g.cancelled \/ interrupted

\* run returns e to RunE, which cleans up when e is an error and cleanup is
\* not disabled.
\* Faulty variant of RunReturns (sensitivity of C34): an exit status of the
\* container is not taken for a failure of run.
RunReturnsForgivesExit(e) ==
    /\ runErr' = e
    /\ cpc' = IF e \notin {"nil", "exit status 1"} /\ ~ opt.disableResourceCleanup
              THEN "cleanupWorkspace"
              ELSE "return"

RunReturns(e) ==
    /\ runErr' = e
    /\ cpc' = IF e # "nil" /\ ~ opt.disableResourceCleanup
              THEN "cleanupWorkspace"
              ELSE "return"

\* A call that carries ctx fails once ctx is cancelled.
Fails(fail) == fail \/ interrupted

createServiceAccountIfMissing(outcome) ==
    LET out == IF interrupted THEN "getError" ELSE outcome
    IN /\ cpc = "createServiceAccount"
       /\ UNCHANGED <<cluster, locals, parked, waiter, g, interrupted, podch, pod, exit, reported>>
       /\ IF opt.disableCreateServiceAccount
          THEN /\ cpc' = "createSecret"
               /\ UNCHANGED <<opt, api, trace, runErr>>
          ELSE IF out = "getError"
          THEN /\ RunReturns("attempted to retrieve service account")
               /\ UNCHANGED <<opt, api, trace>>
          ELSE IF KindServiceAccount \in api
          THEN /\ cpc' = "createSecret"
               /\ UNCHANGED <<opt, api, trace, runErr>>
          ELSE IF out = "createError"
          THEN /\ trace' = Append(trace, Event("create", KindServiceAccount, FALSE))
               /\ RunReturns("attempted to create service account")
               /\ UNCHANGED <<opt, api>>
          ELSE /\ trace' = Append(trace, Event("create", KindServiceAccount, TRUE))
               /\ api' = api \cup {KindServiceAccount}
               /\ opt' = [opt EXCEPT !.createdServiceAccount = TRUE]
               /\ cpc' = "createSecret"
               /\ UNCHANGED runErr

\* Faulty variant of createSecretIfMissing (sensitivity of C30): run goes on
\* after a secret that could not be created.
createSecretIfMissingGoesOn(outcome) ==
    LET out == IF interrupted THEN "getError" ELSE outcome
    IN /\ cpc = "createSecret"
       /\ UNCHANGED <<cluster, locals, parked, waiter, g, interrupted, podch, pod, exit, reported>>
       /\ IF opt.disableCreateSecret
          THEN /\ cpc' = "createWorkspace"
               /\ UNCHANGED <<opt, api, trace, runErr>>
          ELSE IF out = "getError"
          THEN /\ RunReturns("attempted to retrieve secret")
               /\ UNCHANGED <<opt, api, trace>>
          ELSE IF KindSecret \in api
          THEN /\ cpc' = "createWorkspace"
               /\ UNCHANGED <<opt, api, trace, runErr>>
          ELSE IF out = "createError"
          THEN /\ trace' = Append(trace, Event("create", KindSecret, FALSE))
               /\ cpc' = "createWorkspace"
               /\ UNCHANGED <<opt, api, runErr>>
          ELSE /\ trace' = Append(trace, Event("create", KindSecret, TRUE))
               /\ api' = api \cup {KindSecret}
               /\ opt' = [opt EXCEPT !.createdSecret = TRUE]
               /\ cpc' = "createWorkspace"
               /\ UNCHANGED runErr

createSecretIfMissing(outcome) ==
    LET out == IF interrupted THEN "getError" ELSE outcome
    IN /\ cpc = "createSecret"
       /\ UNCHANGED <<cluster, locals, parked, waiter, g, interrupted, podch, pod, exit, reported>>
       /\ IF opt.disableCreateSecret
          THEN /\ cpc' = "createWorkspace"
               /\ UNCHANGED <<opt, api, trace, runErr>>
          ELSE IF out = "getError"
          THEN /\ RunReturns("attempted to retrieve secret")
               /\ UNCHANGED <<opt, api, trace>>
          ELSE IF KindSecret \in api
          THEN /\ cpc' = "createWorkspace"
               /\ UNCHANGED <<opt, api, trace, runErr>>
          ELSE IF out = "createError"
          THEN /\ trace' = Append(trace, Event("create", KindSecret, FALSE))
               /\ RunReturns("attempted to create secret")
               /\ UNCHANGED <<opt, api>>
          ELSE /\ trace' = Append(trace, Event("create", KindSecret, TRUE))
               /\ api' = api \cup {KindSecret}
               /\ opt' = [opt EXCEPT !.createdSecret = TRUE]
               /\ cpc' = "createWorkspace"
               /\ UNCHANGED runErr

\* createWorkspace, opt.createdWorkspace = true and errgroup.WithContext.
createWorkspace(fail) ==
    /\ cpc = "createWorkspace"
    /\ UNCHANGED <<cluster, locals, parked, waiter, interrupted, podch, pod, exit, reported>>
    /\ IF Fails(fail) \/ KindWorkspace \in api
       THEN /\ trace' = Append(trace, Event("create", KindWorkspace, FALSE))
            /\ RunReturns("workspace create error")
            /\ UNCHANGED <<opt, api, g>>
       ELSE /\ trace' = Append(trace, Event("create", KindWorkspace, TRUE))
            /\ api' = api \cup {KindWorkspace}
            /\ opt' = [opt EXCEPT !.createdWorkspace = TRUE]
            /\ g' = NewGroup
            /\ cpc' = "goWaitForContainer"
            /\ UNCHANGED runErr

\* g.Go(...) of the waiter w, after which the main goroutine is at next.
Go(w, next) ==
    /\ waiter' = [waiter EXCEPT ![w] = Running]
    /\ trace' = Append(trace, Event("go", w, TRUE))
    /\ cpc' = next

goWaitForContainer ==
    /\ cpc = "goWaitForContainer"
    /\ Go("waitForContainer", "goWaitForRestore")
    /\ UNCHANGED <<cluster, locals, parked, opt, api, g, interrupted, podch, pod, exit,
                   runErr, reported>>

goWaitForRestore ==
    /\ cpc = "goWaitForRestore"
    /\ IF opt.BackupBucket # ""
       THEN Go("waitForRestore", "goWaitForReconcile")
       ELSE cpc' = "goWaitForReconcile" /\ UNCHANGED <<waiter, trace>>
    /\ UNCHANGED <<cluster, locals, parked, opt, api, g, interrupted, podch, pod, exit,
                   runErr, reported>>

goWaitForReconcile ==
    /\ cpc = "goWaitForReconcile"
    /\ Go("waitForReconcile", "wait")
    /\ UNCHANGED <<cluster, locals, parked, opt, api, g, interrupted, podch, pod, exit,
                   runErr, reported>>

\* Faulty variant of Wait (sensitivity of C18): the join does not wait for
\* the goroutines of the group.
WaitWithoutJoin ==
    /\ cpc = "wait"
    /\ g' = [g EXCEPT !.cancelled = TRUE]
    /\ trace' = Append(trace, Event("wait", g.by, g.err = "nil"))
    /\ IF g.err # "nil"
       THEN RunReturns(g.err)
       ELSE cpc' = "receive" /\ UNCHANGED runErr
    /\ UNCHANGED <<cluster, locals, parked, opt, api, waiter, interrupted, podch, pod, exit,
                   reported>>

\* g.Wait(): blocks until every goroutine of the group has returned, cancels
\* gctx and returns the first error.
Wait ==
    /\ cpc = "wait"
    /\ \A w \in Waiters : waiter[w].state # "running"
    /\ g' = [g EXCEPT !.cancelled = TRUE]
    /\ trace' = Append(trace, Event("wait", g.by, g.err = "nil"))
    /\ IF g.err # "nil"
       THEN RunReturns(g.err)
       ELSE cpc' = "receive" /\ UNCHANGED runErr
    /\ UNCHANGED <<cluster, locals, parked, opt, api, waiter, interrupted, podch, pod, exit,
                   reported>>

\* pod := <-podch blocks while the channel is empty.
ReceivePod ==
    /\ cpc = "receive"
    /\ podch # <<>>
    /\ pod' = Head(podch)
    /\ podch' = Tail(podch)
    /\ trace' = Append(trace, Event("receive", "podch", TRUE))
    /\ cpc' = "exitMonitor"
    /\ UNCHANGED <<cluster, locals, parked, opt, api, waiter, g, interrupted, exit,
                   runErr, reported>>

\* monitors.ExitMonitor starts the monitor and returns its channel at once.
ExitMonitor ==
    /\ cpc = "exitMonitor"
    /\ exit' = [exit EXCEPT !.state = "running"]
    /\ trace' = Append(trace, Event("monitor", pod, TRUE))
    /\ cpc' = "stream"
    /\ UNCHANGED <<cluster, locals, parked, opt, api, waiter, g, interrupted, podch, pod,
                   runErr, reported>>

\* logstreamer.Stream returns when the log has ended or with an error.
Stream(fail) ==
    /\ cpc = "stream"
    /\ trace' = Append(trace, Event("stream", pod, ~ Fails(fail)))
    /\ IF Fails(fail)
       THEN RunReturns("stream error")
       ELSE cpc' = "write" /\ UNCHANGED runErr
    /\ UNCHANGED <<cluster, locals, parked, opt, api, waiter, g, interrupted, podch, pod,
                   exit, reported>>

\* o.etokenv.Write(o.path)
Write(fail) ==
    /\ cpc = "write"
    /\ trace' = Append(trace, Event("write", "etokenv", ~ fail))
    /\ IF fail
       THEN RunReturns("environment write error")
       ELSE cpc' = "select" /\ UNCHANGED runErr
    /\ UNCHANGED <<cluster, locals, parked, opt, api, waiter, g, interrupted, podch, pod,
                   exit, reported>>

\* Faulty variant of SelectExit (sensitivity of C19): the code received from
\* the monitor is dropped.
SelectExitDropsCode ==
    /\ cpc = "select"
    /\ exit.ch # <<>>
    /\ exit' = [exit EXCEPT !.ch = Tail(exit.ch)]
    /\ trace' = Append(trace, Event("select", "exit", TRUE))
    /\ RunReturns("nil")
    /\ UNCHANGED <<cluster, locals, parked, opt, api, waiter, g, interrupted, podch, pod,
                   reported>>

\* case code := <-exit
SelectExit ==
    /\ cpc = "select"
    /\ exit.ch # <<>>
    /\ exit' = [exit EXCEPT !.ch = Tail(exit.ch)]
    /\ trace' = Append(trace, Event("select", "exit", TRUE))
    /\ RunReturns(Head(exit.ch))
    /\ UNCHANGED <<cluster, locals, parked, opt, api, waiter, g, interrupted, podch, pod,
                   reported>>

\* case <-time.After(10 * time.Second): nothing arrived on exit in time.
SelectTimeout ==
    /\ cpc = "select"
    /\ exit.ch = <<>>
    /\ trace' = Append(trace, Event("select", "time.After", TRUE))
    /\ RunReturns(errExitTimeout)
    /\ UNCHANGED <<cluster, locals, parked, opt, api, waiter, g, interrupted, podch, pod,
                   exit, reported>>

\* A Delete of cleanup, issued with context.Background(); its error is dropped.
Delete(kind, fail) ==
    LET ok == ~ fail /\ kind \in api
    IN /\ trace' = Append(trace, Event("delete", kind, ok))
       /\ api' = IF ok THEN api \ {kind} ELSE api

\* Faulty variant of cleanupWorkspace (sensitivity of C20): cleanup gives up
\* when the delete of the workspace fails.
cleanupWorkspaceGivesUp(fail) ==
    /\ cpc = "cleanupWorkspace"
    /\ IF opt.createdWorkspace
       THEN Delete(KindWorkspace, fail)
       ELSE UNCHANGED <<api, trace>>
    /\ cpc' = IF opt.createdWorkspace /\ fail THEN "return" ELSE "cleanupSecret"
    /\ UNCHANGED <<cluster, locals, parked, opt, waiter, g, interrupted, podch, pod, exit,
                   runErr, reported>>

cleanupWorkspace(fail) ==
    /\ cpc = "cleanupWorkspace"
    /\ IF opt.createdWorkspace
       THEN Delete(KindWorkspace, fail)
       ELSE UNCHANGED <<api, trace>>
    /\ cpc' = "cleanupSecret"
    /\ UNCHANGED <<cluster, locals, parked, opt, waiter, g, interrupted, podch, pod, exit,
                   runErr, reported>>

\* Faulty variant of cleanupSecret (sensitivity of C33): the secret is deleted
\* whether or not this invocation created it.
cleanupSecretAlways(fail) ==
    /\ cpc = "cleanupSecret"
    /\ Delete(KindSecret, fail)
    /\ cpc' = "cleanupServiceAccount"
    /\ UNCHANGED <<cluster, locals, parked, opt, waiter, g, interrupted, podch, pod, exit,
                   runErr, reported>>

cleanupSecret(fail) ==
    /\ cpc = "cleanupSecret"
    /\ IF opt.createdSecret
       THEN Delete(KindSecret, fail)
       ELSE UNCHANGED <<api, trace>>
    /\ cpc' = "cleanupServiceAccount"
    /\ UNCHANGED <<cluster, locals, parked, opt, waiter, g, interrupted, podch, pod, exit,
                   runErr, reported>>

cleanupServiceAccount(fail) ==
    /\ cpc = "cleanupServiceAccount"
    /\ IF opt.createdServiceAccount
       THEN Delete(KindServiceAccount, fail)
       ELSE UNCHANGED <<api, trace>>
    /\ cpc' = "return"
    /\ UNCHANGED <<cluster, locals, parked, opt, waiter, g, interrupted, podch, pod, exit,
                   runErr, reported>>

\* Faulty variant of RunEReturns (sensitivity of C21): a delete of cleanup
\* that failed is reported in place of the error of run.
RunEReportsCleanup ==
    /\ cpc = "return"
    /\ reported' = IF \E i \in 1..Len(trace) : trace[i].verb = "delete" /\ ~ trace[i].ok
                   THEN "cleanup error"
                   ELSE runErr
    /\ cpc' = "exited"
    /\ UNCHANGED <<cluster, locals, parked, opt, api, waiter, g, interrupted, podch, pod,
                   exit, trace, runErr>>

\* return err of RunE
RunEReturns ==
    /\ cpc = "return"
    /\ reported' = runErr
    /\ cpc' = "exited"
    /\ UNCHANGED <<cluster, locals, parked, opt, api, waiter, g, interrupted, podch, pod,
                   exit, trace, runErr>>

\* Faulty variant of Record (sensitivity of C16): the group keeps the last
\* error instead of the first.
RecordKeepsLast(w, e) ==
    IF e # "nil"
    THEN [err |-> e, by |-> w, cancelled |-> TRUE]
    ELSE g

\* Faulty variant of Record (sensitivity of C15): the first error is kept but
\* gctx is left as it is, as a plain wait group would.
RecordWithoutCancel(w, e) ==
    IF e # "nil" /\ g.err = "nil"
    THEN [err |-> e, by |-> w, cancelled |-> g.cancelled]
    ELSE g

\* The goroutine of g.Go: the first error of the group is kept and cancels gctx.
Record(w, e) ==
    IF e # "nil" /\ g.err = "nil"
    THEN [err |-> e, by |-> w, cancelled |-> TRUE]
    ELSE g

\* The waiter w returns e.
WaiterReturns(w, e, cause) ==
    /\ waiter[w].state = "running"
    /\ waiter' = [waiter EXCEPT ![w] =
          Finished(e, cause, 1 + Cardinality({v \in Waiters : waiter[v].state = "returned"}))]
    /\ g' = Record(w, e)
    /\ UNCHANGED <<cluster, locals, parked, opt, api, cpc, interrupted, pod, exit, trace,
                   runErr, reported>>

\* Faulty variant of waitSucceeds (sensitivity of C32): the pod waiter
\* returns nil without sending the pod.
waitSucceedsKeepsPod(w) ==
    /\ WaiterReturns(w, "nil", "event")
    /\ UNCHANGED podch

\* UntilWithSync returns the event that satisfies the handler; the pod waiter
\* sends the pod of the event on podch.
waitSucceeds(w) ==
    /\ WaiterReturns(w, "nil", "event")
    /\ podch' = IF w = "waitForContainer" THEN Append(podch, "pod") ELSE podch

\* UntilWithSync returns the error of the handler or of the watch.
waitFails(w) ==
    /\ WaiterReturns(w, "watch error", "event")
    /\ UNCHANGED podch

\* Faulty variant of waitTimesOut (sensitivity of C31): the waiter watches
\* with a context that has no deadline.
waitWithoutDeadline(w) ==
    /\ FALSE
    /\ WaiterReturns(w, Sentinel(w), "deadline")
    /\ UNCHANGED podch

\* The deadline of the waiter's own context passes: UntilWithSync returns
\* wait.ErrWaitTimeout.
waitTimesOut(w) ==
    /\ WaiterReturns(w, Sentinel(w), "deadline")
    /\ UNCHANGED podch

\* gctx is done before the deadline: the waiter's context is done with it and
\* UntilWithSync returns wait.ErrWaitTimeout as for a deadline.
waitCancelled(w) ==
    /\ GctxDone
    /\ WaiterReturns(w, Sentinel(w), "cancel")
    /\ UNCHANGED podch

\* The exit monitor sends the exit code of the container on its channel.
MonitorSends(code) ==
    /\ exit.state = "running"
    /\ exit' = [state |-> "sent", ch |-> Append(exit.ch, code), code |-> code]
    /\ UNCHANGED <<cluster, locals, parked, opt, api, cpc, waiter, g, interrupted, podch, pod,
                   trace, runErr, reported>>

\* The user interrupts the command while run is in progress.
Interrupt ==
    /\ runErr = "running"
    /\ ~ interrupted
    /\ interrupted' = TRUE
    /\ UNCHANGED <<cluster, locals, parked, opt, api, cpc, waiter, g, podch, pod, exit,
                   trace, runErr, reported>>

InitClient ==
    /\ workspaces = {}
    /\ commands = {}
    /\ objects = {}
    /\ secrets = {}
    /\ pc = "idle"
    /\ request = ZeroRequest
    /\ instance = ZeroWorkspace
    /\ err = "nil"
    /\ result = NoResult
    /\ calls = <<>>
    /\ parked = IdleWorker
    /\ \E options \in Options, existing \in SUBSET ClientKinds :
          ClientStarts(options, existing)

NextClient ==
    \/ \E outcome \in {"ok", "getError", "createError"} :
          createServiceAccountIfMissing(outcome)
    \/ \E outcome \in {"ok", "getError", "createError"} :
          createSecretIfMissing(outcome)
    \/ \E fail \in BOOLEAN : createWorkspace(fail)
    \/ goWaitForContainer
    \/ goWaitForRestore
    \/ goWaitForReconcile
    \/ Wait
    \/ ReceivePod
    \/ ExitMonitor
    \/ \E fail \in BOOLEAN : Stream(fail)
    \/ \E fail \in BOOLEAN : Write(fail)
    \/ SelectExit
    \/ SelectTimeout
    \/ \E fail \in BOOLEAN : cleanupWorkspace(fail)
    \/ \E fail \in BOOLEAN : cleanupSecret(fail)
    \/ \E fail \in BOOLEAN : cleanupServiceAccount(fail)
    \/ RunEReturns
    \/ \E w \in Waiters : waitSucceeds(w)
    \/ \E w \in Waiters : waitFails(w)
    \/ \E w \in Waiters : waitTimesOut(w)
    \/ \E w \in Waiters : waitCancelled(w)
    \/ \E code \in ExitCodes : MonitorSends(code)
    \/ Interrupt

SpecClient == InitClient /\ [][NextClient]_vars

\* Time passes, so the timer of each context.WithTimeout fires while its
\* waiter is still watching, and the Go scheduler runs the main goroutine
\* once g.Wait can return.
FairTimers ==
    /\ \A w \in Waiters : WF_vars(waitTimesOut(w))
    /\ WF_vars(Wait)

SpecClientFair == SpecClient /\ FairTimers

----------------------------------------------------------------------------

Init ==
    /\ workspaces = {}
    /\ commands = {}
    /\ objects = {}
    /\ secrets = {}
    /\ pc = "idle"
    /\ request = ZeroRequest
    /\ instance = ZeroWorkspace
    /\ err = "nil"
    /\ result = NoResult
    /\ calls = <<>>
    /\ parked = IdleWorker
    /\ ClientNotInvoked

Next ==
    \/ \E w \in WsNames, ns \in Namespaces, s \in SecretNames : CreateWorkspace(w, ns, s)
    \/ \E w \in WsNames, ns \in Namespaces : DeleteWorkspace(w, ns)
    \/ \E n \in CmdNames, ns \in Namespaces, w \in Labels, t \in Timestamps :
          CreateCommand(n, ns, w, t)
    \/ \E c \in commands : CompleteCommand(c)
    \/ \E c \in commands : DeleteCommand(c)
    \/ \E s \in SecretNames \ {""} : CreateSecret(s)
    \/ \E s \in SecretNames \ {""} : DeleteSecret(s)
    \/ \E w \in WsNames, ns \in Namespaces : OtherCreatePVC(w, ns)
    \/ \E o \in objects : DeletePVC(o)
    \/ \E w \in Labels, ns \in Namespaces, fail \in BOOLEAN : ReconcileGetWorkspace(w, ns, fail)
    \/ \E fail \in BOOLEAN : ReconcileGetPVC(fail)
    \/ \E fail \in BOOLEAN : ReconcileCreatePVC(fail)
    \/ \E failList \in BOOLEAN, failUpdate \in BOOLEAN : ReconcileQueue(failList, failUpdate)

Spec == Init /\ [][Next]_vars

----------------------------------------------------------------------------
(* The controller alone: the cluster the operator finds when it starts is   *)
(* any cluster the other actors can have left behind, nobody but the       *)
(* worker acts, and no API call fails.  Passes are requested for the       *)
(* workspace objects only, so that two passes that follow one another are  *)
(* two passes in a row on the same workspace.                              *)

\* The Command objects that can be in the cluster, at most one per name.
CommandSets ==
    {{[name |-> n, namespace |-> f[n].namespace, workspace |-> f[n].workspace,
       completed |-> f[n].completed, created |-> f[n].created] :
          n \in {m \in CmdNames : f[m].present}} :
       f \in [CmdNames -> [present : BOOLEAN, namespace : Namespaces,
                           workspace : Labels, completed : BOOLEAN,
                           created : Timestamps]]}

\* The queues an earlier run of the operator can have stored.
StoredQueues == UNION {Perms(S) : S \in SUBSET CmdNames}

\* The cache sizes a workspace can declare; "" is a size left unset.
CacheSizes == {"", "1Gi", "2Gi"}

\* newCmd: the storage class of the workspace spec is nil when the flag
\* --storage-class is not passed and the value of the flag when it is.
StorageClassOfFlag(passed, value) == IF passed THEN value ELSE Null

\* The storage classes `workspace new` can put into a workspace.
StorageClasses ==
    {StorageClassOfFlag(passed, value) :
        passed \in BOOLEAN, value \in {"", "local-path"}}

WorkspaceSets ==
    {{}} \cup
    {{[name |-> w, namespace |-> ns, secretName |-> s,
       size |-> size, storageClass |-> class,
       status |-> [EmptyStatus EXCEPT !.queue = q]]} :
       w \in WsNames, ns \in Namespaces, s \in SecretNames, q \in StoredQueues,
       size \in CacheSizes, class \in StorageClasses}

ObjectSets ==
    SUBSET {newPVCForCR([name |-> w, namespace |-> ns]) :
               w \in WsNames, ns \in Namespaces}

InitAtRest ==
    /\ workspaces \in WorkspaceSets
    /\ commands \in CommandSets
    /\ objects \in ObjectSets
    /\ secrets \in SUBSET (SecretNames \ {""})
    /\ pc = "idle"
    /\ request = ZeroRequest
    /\ instance = ZeroWorkspace
    /\ err = "nil"
    /\ result = NoResult
    /\ calls = <<>>
    /\ parked = IdleWorker
    /\ ClientNotInvoked

NextAtRest ==
    \/ \E w \in WsNames, ns \in Namespaces : ReconcileGetWorkspace(w, ns, FALSE)
    \/ ReconcileGetPVC(FALSE)
    \/ ReconcileCreatePVC(FALSE)
    \/ ReconcileQueue(FALSE, FALSE)

SpecAtRest == InitAtRest /\ [][NextAtRest]_vars

\* Fair invocation: the controller keeps requesting passes for the workspace
\* (after a change, and on every resync of its informers) and its worker
\* carries each API call of a pass out.
FairPasses ==
    /\ WF_vars(\E w \in WsNames, ns \in Namespaces : ReconcileGetWorkspace(w, ns, FALSE))
    /\ WF_vars(ReconcileGetPVC(FALSE))
    /\ WF_vars(ReconcileCreatePVC(FALSE))
    /\ WF_vars(ReconcileQueue(FALSE, FALSE))

SpecAtRestFair == SpecAtRest /\ FairPasses

----------------------------------------------------------------------------
(* Two workspaces and two workers.  controller.New is given no              *)
(* MaxConcurrentReconciles and so starts one worker; a second worker, whose *)
(* pass is interleaved with the first one's API call by API call, is what a *)
(* controller started with more than one would run.  The work queue never   *)
(* hands the key a worker is processing to another worker.                   *)

\* The scheduler runs the other worker: it resumes where it was parked.
Switch ==
    /\ pc' = parked.pc
    /\ request' = parked.request
    /\ instance' = parked.instance
    /\ err' = parked.err
    /\ result' = parked.result
    /\ calls' = parked.calls
    /\ parked' = [pc |-> pc, request |-> request, instance |-> instance,
                  err |-> err, result |-> result, calls |-> calls]
    /\ parked' # parked
    /\ UNCHANGED <<cluster, client>>

\* The work queue hands the key ns/w to the running worker.
Dequeue(w, ns, fail) ==
    /\ parked.request # [Name |-> w, Namespace |-> ns]
    /\ ReconcileGetWorkspace(w, ns, fail)

\* The commands of the two workspaces, none of them completed.
CommandsOfBoth ==
    {{[name |-> n, namespace |-> ns, workspace |-> f[n], completed |-> FALSE,
       created |-> 0] : n \in {m \in CmdNames : f[m] # ""}} :
       f \in [CmdNames -> Labels \cup {""}], ns \in Namespaces}

InitBoth ==
    /\ workspaces = {[name |-> w, namespace |-> ns, secretName |-> "",
                      size |-> "", storageClass |-> Null, status |-> EmptyStatus] :
                        w \in Labels, ns \in Namespaces}
    /\ commands \in CommandsOfBoth
    /\ objects \in SUBSET {newPVCForCR([name |-> w, namespace |-> ns]) :
                               w \in Labels, ns \in Namespaces}
    /\ secrets = {}
    /\ pc = "idle"
    /\ request = ZeroRequest
    /\ instance = ZeroWorkspace
    /\ err = "nil"
    /\ result = NoResult
    /\ calls = <<>>
    /\ parked = IdleWorker
    /\ ClientNotInvoked

NextBoth ==
    \/ Switch
    \/ \E w \in Labels, ns \in Namespaces, fail \in BOOLEAN : Dequeue(w, ns, fail)
    \/ \E fail \in BOOLEAN : ReconcileGetPVC(fail)
    \/ \E fail \in BOOLEAN : ReconcileCreatePVC(fail)
    \/ \E failList, failUpdate \in BOOLEAN : ReconcileQueue(failList, failUpdate)

SpecBoth == InitBoth /\ [][NextBoth]_vars

----------------------------------------------------------------------------
(* Properties of a pass *)

\* The name under which the tests look up the config map and the pod.
DependentName(w) == "workspace-" \o w

DependentKinds == {KindPVC, KindConfigMap, KindPod}

\* The step with which a pass on the fetched workspace w of namespace ns returns.
PassEnds(w, ns) ==
    pc # "idle" /\ pc' = "idle" /\ instance.name = w /\ instance.namespace = ns

\* The pass returns nil and the API server carried out every write it issued.
SuccessfulPass(w, ns) ==
    /\ PassEnds(w, ns)
    /\ result'.err = "nil"
    /\ \A i \in 1..Len(calls') : calls'[i].ok

\* A successful pass that got as far as the queue.
QueuePass(w, ns) == SuccessfulPass(w, ns) /\ pc = "list"

\* The commands linked to w.
LinkedTo(w) == {c \in commands : c.workspace = w}

\* The commands the queue of w is to hold.
Wanted(w) == {c \in LinkedTo(w) : ~ c.completed}

\* c sorts before d: creation timestamp ascending, ties by name ascending.
CreatedBefore(c, d) ==
    c.created < d.created \/ (c.created = d.created /\ c.name < d.name)

\* The workspace x references a secret that does not exist.
MissingSecret(x) == x.secretName # "" /\ x.secretName \notin secrets

Exists(kind, name, ns) == GetObject(kind, name, ns) # {}

\* The Healthy condition stored for the workspace w of namespace ns.
Healthy(w, ns) ==
    GetCondition((CHOOSE x \in GetWorkspace(w, ns) : TRUE).status, ConditionHealthy)

\* The claim, the config map and the pod of the workspace w all exist.
AllDependentsExist(w, ns) ==
    /\ Exists(KindPVC, newPVCForCR([name |-> w, namespace |-> ns]).name, ns)
    /\ Exists(KindConfigMap, DependentName(w), ns)
    /\ Exists(KindPod, DependentName(w), ns)

\* C1: after a successful pass of W that computed the queue, every name in
\* W's queue names a command linked to W.
C1_QueueOnlyOwnCommands ==
    [][\A w \in WsNames, ns \in Namespaces : QueuePass(w, ns) =>
          \A n \in Range(StoredQueue(w)') : \E c \in LinkedTo(w)' : c.name = n]_vars

\* C2: after a successful pass of W that computed the queue, no completed
\* command is in W's queue.
C2_NoCompletedInQueue ==
    [][\A w \in WsNames, ns \in Namespaces : QueuePass(w, ns) =>
          \A n \in Range(StoredQueue(w)') :
              ~ \E c \in commands' : c.name = n /\ c.completed]_vars

\* C3: two commands that are in the queue before and after a step keep their
\* relative order, whatever the step and whatever order the list call returns.
C3_QueueStable ==
    [][\A w \in WsNames : \A a, b \in CmdNames :
          (/\ Before(StoredQueue(w), a, b)
           /\ IndexOf(StoredQueue(w)', a) # 0
           /\ IndexOf(StoredQueue(w)', b) # 0)
          => Before(StoredQueue(w)', a, b)]_vars

\* C4: a successful pass that computed the queue places every non-completed
\* command of the workspace that was not in the previous queue after all
\* retained entries, the new ones by creation timestamp and then name.
C4_NewAppendedInCreationOrder ==
    [][\A w \in WsNames, ns \in Namespaces : QueuePass(w, ns) =>
          LET added == {c \in Wanted(w) : IndexOf(StoredQueue(w), c.name) = 0}
          IN \A c \in added :
                /\ IndexOf(StoredQueue(w)', c.name) # 0
                /\ \A r \in Range(StoredQueue(w)) \cap Range(StoredQueue(w)') :
                      Before(StoredQueue(w)', r, c.name)
                /\ \A d \in added :
                      CreatedBefore(c, d) => Before(StoredQueue(w)', c.name, d.name)]_vars

\* C6: after a successful pass the Healthy condition is false when the spec
\* names a secret that does not exist and true otherwise.
C6_HealthyReflectsSecret ==
    [][\A w \in WsNames, ns \in Namespaces :
          (SuccessfulPass(w, ns) /\ GetWorkspace(w, ns)' # {}) =>
              Healthy(w, ns)' = (IF MissingSecret(instance) THEN "False" ELSE "True")]_vars

\* C7: a pass on a workspace whose secret is missing, none of whose API calls
\* fails, returns nil, has recomputed the queue, leaves all three dependents
\* in place and reports Healthy false.
C7_MissingSecretDoesNotStopPass ==
    [][\A w \in WsNames, ns \in Namespaces :
          (/\ PassEnds(w, ns)
           /\ MissingSecret(instance)
           /\ err' \notin {"transient", "AlreadyExists"}
           /\ GetWorkspace(w, ns)' # {})
          => /\ result'.err = "nil"
             /\ pc = "list"
             /\ AllDependentsExist(w, ns)'
             /\ Healthy(w, ns)' = "False"]_vars

\* C8: a pass for an identity with no workspace object returns success, asks
\* for no requeue and issues no write.
C8_NotFoundIsSuccessWithoutWrites ==
    (pc = "idle" /\ err = "NotFound") =>
        (result = [Requeue |-> FALSE, err |-> "nil"] /\ calls = <<>>)

\* A pass found no workspace although commands and a claim are there.
C8_Witness ==
    /\ pc = "idle"
    /\ err = "NotFound"
    /\ result.err = "nil"
    /\ workspaces = {}
    /\ commands # {}
    /\ objects # {}

\* C9: after a successful pass of an existing workspace its config map, its
\* claim and its pod all exist.
C9_DependentsExist ==
    [][\A w \in WsNames, ns \in Namespaces :
          (SuccessfulPass(w, ns) /\ GetWorkspace(w, ns)' # {}) =>
              AllDependentsExist(w, ns)']_vars

\* C10: a step of a pass keeps every existing dependent as it is; it adds one
\* only after the lookup reported it absent, and the only write call a pass
\* issues against a dependent is a create.
C10_DependentsOnlyCreated ==
    [][pc' # pc =>
          /\ \A o \in objects : o \in objects'
          /\ \A o \in objects' \ objects :
                err = "NotFound" /\ ~ Exists(o.kind, o.name, o.namespace)
          /\ \A i \in 1..Len(calls') :
                calls'[i].kind \in DependentKinds => calls'[i].verb = "create"]_vars

\* A pass looked the claim up, found it and has written nothing.
C10_Witness ==
    /\ pc = "list"
    /\ calls = <<>>
    /\ parked = IdleWorker
    /\ Exists(KindPVC, newPVCForCR(instance).name, instance.namespace)

\* The stored status of the workspace w of namespace ns.
StoredStatus(w, ns) == {x.status : x \in GetWorkspace(w, ns)}

\* C11: with the cluster at rest, a pass of a workspace that follows a pass
\* that returned nil issues no create call and leaves the stored status of
\* the workspace as that pass left it.
C11_SecondPassChangesNothing ==
    [][\A w \in WsNames, ns \in Namespaces :
          (PassEnds(w, ns) /\ result.err = "nil") =>
              /\ \A i \in 1..Len(calls') : calls'[i].verb # "create"
              /\ StoredStatus(w, ns)' = StoredStatus(w, ns)]_vars

\* C12: whenever the Get of the workspace, the Get of the claim, the create
\* of the claim or the list of the commands fails with an error other than
\* not-found, the pass has ended and returned that error.
C12_ErrorsAreReturned ==
    err \notin {"nil", "NotFound"} => (pc = "idle" /\ result.err = err)

\* A pass returned the error of a create it issued and the API server refused.
C12_Witness ==
    /\ pc = "idle"
    /\ err = "transient"
    /\ result.err = "transient"
    /\ Len(calls) = 1
    /\ calls[1].verb = "create"
    /\ ~ calls[1].ok

\* C13: a pass whose create fails because another actor created the claim
\* after the lookup does not return an error.
C13_AlreadyExistsIsSuccess ==
    (pc = "idle" /\ err = "AlreadyExists") => result.err = "nil"

KindCommand == "Command"

\* A step of the worker: the other actors leave its locals alone.
WorkerStep == locals' # locals

\* C14: no step of a pass adds, removes or changes a command, and no pass
\* issues a write call against a command.
C14_CommandsOnlyRead ==
    [][WorkerStep =>
          /\ commands' = commands
          /\ \A i \in 1..Len(calls') : calls'[i].kind # KindCommand]_vars

\* A pass listed a completed and a pending command and wrote the queue.
C14_Witness ==
    /\ pc = "idle"
    /\ Len(calls) = 1
    /\ calls[1].kind = KindStatus
    /\ calls[1].ok
    /\ \E c, d \in commands : c.completed /\ ~ d.completed

----------------------------------------------------------------------------
(* Properties of `workspace new` *)

\* The waiters that returned an error.
Failed == {w \in Waiters : waiter[w].state = "returned" /\ waiter[w].err # "nil"}

\* The waiters that have not returned yet.
StillRunning == {w \in Waiters : waiter[w].state = "running"}

\* C15: once a waiter has returned an error gctx is cancelled, and every
\* waiter that is still running can return at once, whether or not its own
\* deadline has passed.
C15_FirstFailureCancelsTheRest ==
    Failed # {} =>
        /\ g.cancelled
        /\ \A v \in StillRunning : ENABLED waitCancelled(v)

\* The pod waiter failed, the reconcile waiter returned because of the
\* cancellation and the restore waiter has yet to return; nobody interrupted.
C15_Witness ==
    /\ ~ interrupted
    /\ waiter["waitForContainer"].err = "watch error"
    /\ waiter["waitForReconcile"].cause = "cancel"
    /\ waiter["waitForRestore"].state = "running"

\* The events of the trace with the given verb, in order.
Events(verb) == SelectSeq(trace, LAMBDA e : e.verb = verb)

\* g.Wait() has returned.
Joined == Events("wait") # <<>>

\* The waiters run starts for the flags given.
Started ==
    {"waitForContainer", "waitForReconcile"} \cup
    (IF opt.BackupBucket # "" THEN {"waitForRestore"} ELSE {})

\* The waiter that failed before every other one that failed.
FirstFailed == CHOOSE w \in Failed : \A v \in Failed : waiter[w].seq <= waiter[v].seq

\* C16: when the join has returned, the waiters that were started are the pod
\* and the reconcile waiter, and the restore waiter exactly when a backup
\* bucket is given; run went on only if all of them returned nil; and if one
\* failed, run returned the error of the first that failed and started
\* neither the exit monitor nor the log stream nor the environment write.
C16_JoinSucceedsOnlyIfAllSucceed ==
    Joined =>
        /\ {w \in Waiters : waiter[w].state # "unstarted"} = Started
        /\ \A w \in Started : waiter[w].state = "returned"
        /\ Events("wait")[1].ok <=> Failed = {}
        /\ Failed # {} =>
              /\ runErr = waiter[FirstFailed].err
              /\ Events("monitor") = <<>>
              /\ Events("stream") = <<>>
              /\ Events("write") = <<>>

\* With a backup bucket given, the restore waiter timed out first, the pod
\* waiter failed after it, and run returned the restore timeout.
C16_Witness ==
    /\ Joined
    /\ ~ interrupted
    /\ opt.BackupBucket # ""
    /\ waiter["waitForRestore"].seq = 1
    /\ waiter["waitForRestore"].cause = "deadline"
    /\ waiter["waitForContainer"].err = "watch error"
    /\ waiter["waitForReconcile"].err = "nil"
    /\ runErr = errRestoreTimeout

\* C17: when the first waiter to fail is one whose own deadline passed, run
\* returns the timeout error of that waiter, and the three timeout errors
\* differ from one another and from the timeout of the wait for the exit code.
C17_OwnTimeoutIsReported ==
    /\ Cardinality({errPodTimeout, errReconcileTimeout, errRestoreTimeout,
                    errExitTimeout}) = 4
    /\ (Joined /\ Failed # {} /\ waiter[FirstFailed].cause = "deadline") =>
          runErr = CASE FirstFailed = "waitForContainer" -> errPodTimeout
                     [] FirstFailed = "waitForReconcile" -> errReconcileTimeout
                     [] FirstFailed = "waitForRestore" -> errRestoreTimeout

\* The reconcile waiter timed out while the other two were running; they
\* returned because of the cancellation and run returned the reconcile timeout.
C17_Witness ==
    /\ Joined
    /\ ~ interrupted
    /\ waiter["waitForReconcile"].seq = 1
    /\ waiter["waitForReconcile"].cause = "deadline"
    /\ waiter["waitForContainer"].cause = "cancel"
    /\ waiter["waitForRestore"].cause = "cancel"
    /\ runErr = errReconcileTimeout

\* The phases of run from the join on, in the order of the code.
Phases == <<"wait", "receive", "monitor", "stream", "write", "select">>

\* The phases run has gone through, in the order in which it did.
PhasesDone == [i \in 1..Len(SelectSeq(trace, LAMBDA e : e.verb \in Range(Phases))) |->
                 SelectSeq(trace, LAMBDA e : e.verb \in Range(Phases))[i].verb]

\* C18: from the join on run goes through its phases once each and in the
\* order join, receipt of the pod, start of the exit monitor, log stream,
\* environment write, wait for the exit code; it leaves the join only when
\* every waiter has returned nil; the start of the exit monitor never
\* blocks; the log stream starts only with no waiter running and the pod of
\* the pod waiter received; and each later phase follows the success of the
\* one before it.
C18_PhasesAfterTheJoinInOrder ==
    /\ PhasesDone = SubSeq(Phases, 1, Len(PhasesDone))
    /\ Len(PhasesDone) >= 2 => (StillRunning = {} /\ Failed = {})
    /\ cpc = "exitMonitor" => ENABLED ExitMonitor
    /\ (cpc = "stream" \/ Events("stream") # <<>>) =>
          /\ StillRunning = {}
          /\ waiter["waitForContainer"].err = "nil"
          /\ waiter["waitForContainer"].state = "returned"
          /\ pod = "pod"
          /\ exit.state # "unstarted"
    /\ Events("write") # <<>> => Events("stream")[1].ok
    /\ Events("select") # <<>> => Events("write")[1].ok

\* All three waiters were started and returned nil, and run has streamed the
\* log, written the environment and waits for the exit code.
C18_Witness ==
    /\ cpc = "select"
    /\ opt.BackupBucket # ""
    /\ PhasesDone = SubSeq(Phases, 1, 5)
    /\ \A w \in Waiters : waiter[w].state = "returned"

\* C19: while run waits for the exit code one of the two cases of the select
\* can be taken; the wait ends with the code the exit monitor sent when it
\* has sent one, and with the timeout error when it has not.
C19_ExitStatusOrTimeout ==
    /\ [](cpc = "select" => (ENABLED SelectExit \/ ENABLED SelectTimeout))
    /\ [][(cpc = "select" /\ cpc' # "select") =>
             /\ Events("stream")[1].ok /\ Events("write")[1].ok
             /\ runErr' = IF exit.state = "sent" THEN exit.code ELSE errExitTimeout]_vars

\* The monitor sent a non-zero exit status during the wait and run returned it.
C19_Witness ==
    /\ Events("select") # <<>>
    /\ exit.code = "exit status 1"
    /\ runErr = "exit status 1"
    /\ cpc = "cleanupWorkspace"

\* The kinds of which this invocation created the object.
Created == {k \in ClientKinds : Event("create", k, TRUE) \in Range(trace)}

\* The kinds cleanup issued a delete for, in the order of the calls.
DeleteCalls == [i \in 1..Len(Events("delete")) |-> Events("delete")[i].what]

\* The reverse of the order in which run creates.
CleanupOrder == <<KindWorkspace, KindSecret, KindServiceAccount>>

\* C20: when run has returned an error, cleanup is not disabled and RunE is
\* past cleanup, a delete was issued for exactly the objects this invocation
\* created, workspace first, then secret, then service account, whether or
\* not an earlier delete failed; and what a delete removed is gone.
C20_CleanupDeletesCreatedInReverse ==
    (/\ cpc \in {"return", "exited"}
     /\ runErr \notin {"nil", "running"}
     /\ ~ opt.disableResourceCleanup)
    => /\ DeleteCalls = SelectSeq(CleanupOrder, LAMBDA k : k \in Created)
       /\ \A i \in 1..Len(Events("delete")) :
             Events("delete")[i].ok => Events("delete")[i].what \notin api

\* run created all three objects and failed; the delete of the workspace
\* failed and the secret and the service account were deleted all the same.
C20_Witness ==
    /\ cpc = "exited"
    /\ Created = ClientKinds
    /\ Len(Events("delete")) = 3
    /\ ~ Events("delete")[1].ok
    /\ Events("delete")[2].ok
    /\ Events("delete")[3].ok
    /\ api = {KindWorkspace}

\* C21: what RunE reports is what run returned, whether cleanup ran, was
\* disabled or had deletes that failed; and once run has returned, no step
\* changes what it returned.
C21_ReportedErrorIsRunsError ==
    /\ [](reported # "running" => (cpc = "exited" /\ reported = runErr))
    /\ [][runErr # "running" => runErr' = runErr]_vars

\* run failed in the join, cleanup ran, its delete of the workspace failed,
\* and the user was told the timeout of the pod.
C21_Witness ==
    /\ cpc = "exited"
    /\ reported = errPodTimeout
    /\ Events("delete") # <<>>
    /\ ~ Events("delete")[1].ok

\* The claims a step has added for the workspace x.
NewClaimsOf(x) ==
    {c \in objects' \ objects :
        c.kind = KindPVC /\ c.owner = x.name /\ c.namespace = x.namespace}

\* C22: a volume claim a pass creates for a workspace requests the cache size
\* the workspace declares, and 1Gi when it declares none.
C22_ClaimRequestsDeclaredSize ==
    [][\A x \in workspaces : \A c \in NewClaimsOf(x) :
          c.storage = IF x.size = "" THEN "1Gi" ELSE x.size]_vars

\* C23: a volume claim a pass creates for a workspace carries the storage
\* class of the workspace: null when the flag was not passed, the empty
\* string when it was passed empty, the name when it was passed with a name.
C23_StorageClassThreeStates ==
    [][\A x \in workspaces : \A c \in NewClaimsOf(x) :
          c.storageClassName = x.storageClass]_vars

\* C24: every dependent a step of a pass creates for a workspace named N is
\* named workspace-N and lies in the namespace of the workspace, and it is
\* created under the name the lookup before it reported absent.
C24_DependentsNamedAfterWorkspace ==
    [][WorkerStep =>
          \A c \in objects' \ objects :
              /\ c.name = DependentName(instance.name)
              /\ c.namespace = instance.namespace
              /\ ~ Exists(c.kind, c.name, c.namespace)]_vars

\* C25: after a successful pass that computed the queue of a workspace none
\* of whose commands is pending, the stored queue is empty, whatever it held
\* before.
C25_NoPendingCommandsEmptyQueue ==
    [][\A w \in WsNames, ns \in Namespaces :
          (QueuePass(w, ns) /\ Wanted(w) = {}) => StoredQueue(w)' = <<>>]_vars

\* The command named n is pending and linked to w, and w exists.
PendingFor(n, w) ==
    /\ \E c \in Wanted(w) : c.name = n
    /\ \E x \in workspaces : x.name = w

\* No pending command is named n: it is completed or there is none.
Done(n) == ~ \E c \in commands : c.name = n /\ ~ c.completed

\* C26: with the cluster at rest and passes invoked fairly, the name of a
\* pending command linked to a workspace eventually is in the queue of the
\* workspace, and the name of a command that is completed or gone eventually
\* is in it no longer.
C26_QueueEventuallyFollowsCommands ==
    \A w \in WsNames, n \in CmdNames :
        /\ PendingFor(n, w) ~> (IndexOf(StoredQueue(w), n) # 0)
        /\ Done(n) ~> (IndexOf(StoredQueue(w), n) = 0)

\* The pass issued a status update that the API server carried out.
StatusWritten(cs) ==
    \E i \in 1..Len(cs) : cs[i].kind = KindStatus /\ cs[i].verb = "update" /\ cs[i].ok

\* C27: a pass whose status update is carried out has written a queue that
\* differs from the stored one; with the queue as stored, no update is issued.
C27_StatusWrittenOnlyOnChange ==
    [][\A w \in WsNames, ns \in Namespaces :
          (PassEnds(w, ns) /\ StatusWritten(calls')) =>
              StoredQueue(w)' # StoredQueue(w)]_vars

\* The pass issued a status update that the API server refused.
StatusRefused(cs) ==
    \E i \in 1..Len(cs) : cs[i].kind = KindStatus /\ cs[i].verb = "update" /\ ~ cs[i].ok

\* C28: a pass whose status update is refused returns an error to its caller.
C28_RefusedStatusWriteIsReturned ==
    [][\A w \in WsNames, ns \in Namespaces :
          (PassEnds(w, ns) /\ Len(calls') > Len(calls) /\ StatusRefused(<<calls'[Len(calls')]>>)) =>
              result'.err # "nil"]_vars

\* The status of workspace w of namespace ns.
StatusOf(w, ns) == {x.status : x \in GetWorkspace(w, ns)}

\* The dependent resources of workspace w of namespace ns.
DependentsOf(w, ns) ==
    {c \in objects : c.namespace = ns /\ (c.owner = w \/ c.name = newPVCForCR([name |-> w, namespace |-> ns]).name)}

\* C29: a step of a pass on one workspace leaves the status and the dependent
\* resources of every other workspace as they are, and leaves alone what a
\* pass on another workspace reads and holds: the commands and the locals of
\* the other worker.  So a pass interleaved with another ends as it does alone.
C29_PassesOnDifferentWorkspacesAreIndependent ==
    [][WorkerStep /\ parked' = parked =>
          /\ commands' = commands
          /\ \A b \in Labels, ns \in Namespaces :
                /\ (StatusOf(b, ns)' # StatusOf(b, ns) \/ DependentsOf(b, ns)' # DependentsOf(b, ns)) =>
                       instance.name = b /\ instance.namespace = ns
                /\ (QueuePass(b, ns) /\ StatusWritten(calls')) =>
                       \E items \in Perms({c \in commands : c.namespace = ns}) :
                          StoredQueue(b)' = QueueOf(items)
                /\ (SuccessfulPass(b, ns) /\ pc = "createPVC") =>
                       DependentsOf(b, ns)' = DependentsOf(b, ns) \cup {newPVCForCR(instance)}]_vars

C29_Witness ==
    /\ parked.pc = "list"
    /\ parked.instance.name = "workspace-2"
    /\ pc = "idle"
    /\ result.err = "nil"
    /\ Len(calls) = 1
    /\ calls[1].kind = KindStatus /\ calls[1].name = "workspace-1" /\ calls[1].ok
    /\ StoredQueue("workspace-1") # <<>>
    /\ StoredQueue("workspace-2") = <<>>

\* The place of a kind in the order in which run creates.
Rank(kind) ==
    CASE kind = KindServiceAccount -> 1
      [] kind = KindSecret -> 2
      [] kind = KindWorkspace -> 3

\* The error run returns for a lookup, and for a create, of the kind that failed.
RetrieveError(kind) ==
    CASE kind = KindServiceAccount -> "attempted to retrieve service account"
      [] kind = KindSecret -> "attempted to retrieve secret"

CreateError(kind) ==
    CASE kind = KindServiceAccount -> "attempted to create service account"
      [] kind = KindSecret -> "attempted to create secret"
      [] kind = KindWorkspace -> "workspace create error"

\* create is not disabled for the kind.
CreateEnabled(kind) ==
    CASE kind = KindServiceAccount -> ~ opt.disableCreateServiceAccount
      [] kind = KindSecret -> ~ opt.disableCreateSecret
      [] kind = KindWorkspace -> TRUE

NoWaiterStarted == \A w \in Waiters : waiter[w] = NotStarted /\ Events("go") = <<>>

\* C30: run creates in the order service account, secret, workspace; the
\* service account and the secret only when their lookup found nothing and
\* their creation is not disabled; a lookup or a create that fails is what run
\* returns at once, with nothing created and no waiter started after it.
C30_CreatesInOrderAndStopsAtFirstError ==
    /\ [](LET cs == Events("create")
          IN /\ \A i, j \in 1..Len(cs) : i < j => Rank(cs[i].what) < Rank(cs[j].what)
             /\ \A i \in 1..Len(cs) :
                   ~ cs[i].ok => /\ i = Len(cs)
                                 /\ runErr = CreateError(cs[i].what)
                                 /\ NoWaiterStarted
             /\ \A kind \in {KindServiceAccount, KindSecret} :
                   runErr = RetrieveError(kind) =>
                      /\ \A i \in 1..Len(cs) : Rank(cs[i].what) < Rank(kind)
                      /\ NoWaiterStarted)
    /\ [][
          /\ \A kind \in {KindServiceAccount, KindSecret} :
               (Len(Events("create")') > Len(Events("create"))
                  /\ Events("create")'[Len(Events("create")')].what = kind) =>
                     (kind \notin api /\ CreateEnabled(kind))
          /\ ((\E kind \in ClientKinds : runErr = CreateError(kind)) \/
              (\E kind \in {KindServiceAccount, KindSecret} : runErr = RetrieveError(kind))) =>
                 (Events("create")' = Events("create") /\ waiter' = waiter)
       ]_vars

C30_Witness ==
    /\ cpc = "exited"
    /\ reported = "attempted to create secret"
    /\ Len(Events("create")) = 2
    /\ Events("create")[1] = Event("create", KindServiceAccount, TRUE)
    /\ Events("create")[2] = Event("create", KindSecret, FALSE)

\* C31: every started waiter returns, and run leaves the join, whatever the
\* engine, the pod and the restore condition do.
C31_JoinTerminates ==
    /\ \A w \in Waiters : (waiter[w].state = "running") ~> (waiter[w].state = "returned")
    /\ (cpc = "wait") ~> Joined

C31_Witness ==
    /\ Joined
    /\ ~ interrupted
    /\ opt.BackupBucket # ""
    /\ \A w \in Waiters : waiter[w].state = "returned"
    /\ waiter["waitForContainer"].cause = "deadline"
    /\ waiter["waitForContainer"].seq = 3
    /\ \A w \in Waiters \ {"waitForContainer"} : waiter[w].err = "nil"
    /\ runErr = errPodTimeout

\* C32: podch never holds more than its one slot, the pod waiter sends once
\* and into the empty channel, after a join that succeeded the channel holds
\* exactly one pod for the receive, and after a join that failed nothing is
\* received.
C32_PodHandoff ==
    /\ [](/\ Len(podch) <= 1
          /\ cpc = "receive" => Len(podch) = 1
          /\ (Joined /\ g.err # "nil") => (Events("receive") = <<>> /\ pod = "none")
          /\ Events("receive") # <<>> => (podch = <<>> /\ pod = "pod"))
    /\ [][Len(podch') > Len(podch) =>
             /\ podch = <<>>
             /\ pod = "none"
             /\ waiter["waitForContainer"].state = "running"
             /\ waiter'["waitForContainer"] # waiter["waitForContainer"]]_vars

C32_Witness ==
    /\ cpc = "exitMonitor"
    /\ pod = "pod"
    /\ podch = <<>>
    /\ Events("receive") # <<>>
    /\ g.err = "nil"

\* This invocation's create call of the kind succeeded.
CreatedHere(kind) ==
    \E i \in 1..Len(trace) :
       trace[i].verb = "create" /\ trace[i].what = kind /\ trace[i].ok

\* C33: a delete is issued only for a kind this invocation created, and no
\* object of another origin disappears: not the service account or secret the
\* lookup found, and not the workspace whose create call failed.
C33_CleanupDeletesOnlyItsOwn ==
    /\ [](\A i \in 1..Len(trace) :
             trace[i].verb = "delete" =>
                \E j \in 1..(i - 1) :
                   trace[j].verb = "create" /\ trace[j].what = trace[i].what /\ trace[j].ok)
    /\ [][\A kind \in ClientKinds :
             (kind \in api /\ kind \notin api') => CreatedHere(kind)]_vars

C33_Witness ==
    /\ cpc = "exited"
    /\ reported = "workspace create error"
    /\ ~ opt.disableCreateSecret
    /\ ~ CreatedHere(KindSecret)
    /\ api = {KindSecret, KindWorkspace}
    /\ Events("delete") = <<Event("delete", KindServiceAccount, TRUE)>>

\* run has returned and RunE is past the call of cleanup, if it made one.
PastCleanup == cpc \in {"return", "exited"}

\* C34: cleanup is called exactly when run returns an error and cleanup is not
\* disabled.  After a nil result and with cleanup disabled there is no delete
\* at all; after an error of any phase, the log stream, the wait for the exit
\* code and the exit status included, every created kind has its delete.
C34_CleanupIffRunFailed ==
    /\ []((runErr \in {"nil", "running"} \/ opt.disableResourceCleanup) =>
             Events("delete") = <<>>)
    /\ []((PastCleanup /\ runErr # "nil" /\ ~ opt.disableResourceCleanup) =>
             /\ {Events("delete")[i].what : i \in 1..Len(Events("delete"))} = Created
             /\ runErr \in {"stream error", errExitTimeout, "exit status 1"} =>
                    KindWorkspace \in Created)
    /\ [][(runErr = "running" /\ runErr' # "running") =>
             (cpc' = "cleanupWorkspace" <=>
                 (runErr' # "nil" /\ ~ opt.disableResourceCleanup))]_vars

C34_Witness ==
    /\ cpc = "exited"
    /\ reported = "exit status 1"
    /\ ~ opt.disableResourceCleanup
    /\ Events("stream") = <<Event("stream", "pod", TRUE)>>
    /\ KindWorkspace \notin api
    /\ Event("delete", KindWorkspace, TRUE) \in Range(trace)

\* C35: a waiter that returned its timeout sentinel was unblocked by its own
\* deadline, not by the cancellation of gctx or of the caller's context.
C35_SentinelOnlyOnOwnDeadline ==
    \A w \in Waiters :
       (waiter[w].state = "returned" /\ waiter[w].err = Sentinel(w)) =>
          waiter[w].cause = "deadline"

\* C36: no name is in the stored queue of a workspace more than once.
C36_QueueHasNoDuplicates ==
    \A x \in workspaces :
       \A i, j \in 1..Len(x.status.queue) :
          x.status.queue[i] = x.status.queue[j] => i = j

C36_Witness ==
    /\ pc = "idle"
    /\ result.err = "nil"
    /\ calls # <<>>
    /\ calls[Len(calls)].kind = KindStatus /\ calls[Len(calls)].ok
    /\ Cardinality(commands) = 2
    /\ Len(StoredQueue("workspace-1")) = 2

====
